---------------------------- MODULE Spec2Model ----------------------------
(***************************************************************************)
(* Model of the BFBC2 server status Discord bot (bfbc2_discord_bot.py,     *)
(* bfbc2_server.py): the periodic status task send_server_updates, the     *)
(* admin commands that reset its state, the shutdown waiter and the chat   *)
(* platform's messages.                                                    *)
(*                                                                         *)
(* A coroutine is modelled by one action per stretch of code between two   *)
(* awaits: asyncio runs such a stretch without interleaving.  The          *)
(* directory fetch (monitor_server_from_env) is a blocking call inside the *)
(* first stretch of the tick.                                              *)
(***************************************************************************)
EXTENDS Integers, Sequences, FiniteSets, TLC

(***************************************************************************)
(* Bounds of the model.                                                    *)
(***************************************************************************)
\* Number of messages the chat platform can ever hold (message ids 1..MaxMsgs).
MaxMsgs == 2
\* Number of times the ready event fires (one asyncio.Event object each).
MaxReady == 2

(***************************************************************************)
(* Values.                                                                 *)
(***************************************************************************)
\* Python's None for a message handle / an event object.
None == 0
MsgIds == 1..MaxMsgs
EventIds == 1..MaxReady

\* Channels the bot can see (bot.get_channel resolves them) and one it cannot.
NoChannel == "none"
Channels == {"chA", "chB"}
UnknownChannels == {"chX"}

\* Upstream level codes the directory reports for the monitored server.
Levels == {"Levels/MP_001"}
PlayerCounts == {0, 2}

VARIABLES
    procState,          \* "main" in the __main__ block before bot.run, "up" while the client
                        \* runs, "exited" after os._exit / sys.exit / the end of the script
    exit,               \* how the process ended and its exit code (NoExit while it lives)
    timerTasks,         \* the number of live tasks of the send_server_updates loop
    call,               \* the last call of a function of bfbc2_server.py / a pure helper of the
                        \* bot made on its own: its name, argument and result (NoCall: none)
    UPDATE_CHANNEL_ID,  \* global UPDATE_CHANNEL_ID (NoChannel for None)
    BFBC2_SERVER_NAME,  \* global BFBC2_SERVER_NAME ("" when not configured)
    current_message,    \* global current_message: a message id or None
    last_server_state,  \* global last_server_state: a snapshot or NoneInfo
    shutdown_event,     \* global shutdown_event: the asyncio.Event object, or None
    eventsSet,          \* the Event objects on which set() was called
    tickPc,             \* position of the send_server_updates task
    tickLocal,          \* its locals across an await (channel, edited message, server_info, state_changed)
                        \* and, as history, last_server_state before the tick and whether the previous tick failed
    monPc,              \* position of the shutdown_monitor task
    monLocal,           \* its locals: the Event it waits on, the message it deletes
    msgChan,            \* chat platform: channel of every message id (NoChannel: not created)
    msgDeleted,         \* chat platform: the messages that were deleted
    calls,              \* history: the network calls of the current (or last) tick and their results
    outcome,            \* history: how the last tick ended
    lastOp,             \* history: the operation that made the last step: "tick", a reset, or "other"
    tickAfter,          \* history: the reset that immediately preceded the start of the current (or last) tick
    race,               \* history: progress of a reset that hit an in-flight tick
    teardown            \* history: the teardown steps performed, in order

vars == <<procState, exit, call, timerTasks, UPDATE_CHANNEL_ID, BFBC2_SERVER_NAME, current_message,
          last_server_state, shutdown_event, eventsSet, tickPc, tickLocal,
          monPc, monLocal, msgChan, msgDeleted, calls, outcome, lastOp,
          tickAfter, race, teardown>>

(***************************************************************************)
(* bfbc2_server.py: the snapshot a fetch produces.                         *)
(***************************************************************************)
\* server_info is None.
NoneInfo == [found |-> FALSE, current_players |-> 0, map |-> "", map_code |-> ""]

\* The lookup tables of lines 19-57.
BFBC2_MAP_NAMES ==
    ("Levels/MP_001" :> "Panama Canal") @@ ("Levels/MP_002" :> "Valparaiso")
    @@ ("Levels/MP_003" :> "Laguna Alta") @@ ("Levels/MP_004" :> "Isla Inocentes")
    @@ ("Levels/MP_005" :> "Atacama Desert") @@ ("Levels/MP_006" :> "Arica Harbor")
    @@ ("Levels/MP_007" :> "White Pass") @@ ("Levels/MP_008" :> "Nelson Bay")
    @@ ("Levels/MP_009" :> "Laguna Presa") @@ ("Levels/MP_012" :> "Port Valdez")
    @@ ("Levels/BC1_Oasis" :> "Oasis") @@ ("Levels/BC1_Harvest_Day" :> "Harvest Day")
    @@ ("Levels/MP_SP_002" :> "Cold War") @@ ("Levels/MP_SP_005" :> "Heavy Metal")
    @@ ("Levels/NAM_MP_002" :> "Vantage Point") @@ ("Levels/NAM_MP_003" :> "Hill 137")
    @@ ("Levels/NAM_MP_005" :> "Cao Son Temple")
    @@ ("Levels/NAM_MP_006" :> "Phu Bai Valley")
    @@ ("Levels/NAM_MP_007" :> "Operation Hastings")
BFBC2_GAME_MODES ==
    ("CONQUEST" :> "Conquest") @@ ("RUSH" :> "Rush")
    @@ ("SQDM" :> "Squad Deathmatch") @@ ("SQRUSH" :> "Squad Rush")
BFBC2_REGIONS ==
    ("EU" :> "Europe") @@ ("NA" :> "North America") @@ ("SA" :> "South America")
    @@ ("AS" :> "Asia") @@ ("OC" :> "Oceania") @@ ("AF" :> "Africa")

\* get_map_name with a fixed text for a code that is not a key.
get_map_name_NoFallback(level_code) ==
    IF level_code \in DOMAIN BFBC2_MAP_NAMES THEN BFBC2_MAP_NAMES[level_code]
    ELSE "Unknown Map"

\* BFBC2_MAP_NAMES.get(level_code, level_code)
get_map_name(level_code) ==
    IF level_code \in DOMAIN BFBC2_MAP_NAMES THEN BFBC2_MAP_NAMES[level_code]
    ELSE level_code

\* get_server_info(server): the fields of the snapshot the bot reads.
get_server_info(ap, level) ==
    [found |-> TRUE, current_players |-> ap,
     map |-> get_map_name(level), map_code |-> level]

\* What the directory API answers to one tick: the list call fails ("error"),
\* lists no server whose name contains the target ("no_match") or lists it
\* ("match") with its AP and B-U-level fields; ids tells whether the listed
\* record has its LID and GID keys.
Upstream ==
    [list : {"error", "no_match", "match"}, ap : PlayerCounts,
     level : Levels, ids : BOOLEAN]

\* fetch_server_details reads server['LID'] and server['GID'] before its try:
\* a record without them raises KeyError through get_server_with_players.
FetchRaises(u) == u.list = "match" /\ ~u.ids

\* get_server_with_players / monitor_server_from_env when it does not raise.
monitor_server_from_env(u) ==
    IF u.list = "match" THEN get_server_info(u.ap, u.level) ELSE NoneInfo


(***************************************************************************)
(* bfbc2_discord_bot.py: helpers of the status task.                       *)
(***************************************************************************)
\* bot.get_channel(UPDATE_CHANNEL_ID): the channel, or None when the id is unknown.
get_channel(id) == IF id \in Channels THEN id ELSE NoChannel

\* IdleGate without the "if not channel" return.
IdleGate_NoChannelLookup ==
    \/ UPDATE_CHANNEL_ID = NoChannel
    \/ BFBC2_SERVER_NAME = ""

\* The three early returns of send_server_updates.
IdleGate ==
    \/ UPDATE_CHANNEL_ID = NoChannel
    \/ BFBC2_SERVER_NAME = ""
    \/ get_channel(UPDATE_CHANNEL_ID) = NoChannel

\* state_changed as line 170 computes it (it compares the resolved map name).
state_changed(info, last) ==
    \/ ~last.found
    \/ info.found # last.found
    \/ /\ info.found
       /\ last.found
       /\ \/ info.current_players # last.current_players
          \/ info.map # last.map

\* NeedsCreate that sends a new message on every tick.
NeedsCreate_Always(cm) == TRUE

\* "if current_message is None": the tick sends a new message, else it edits.
NeedsCreate(cm) == cm = None

\* RecreatesAfter without the "except discord.HTTPException" clause.
RecreatesAfter_OnlyNotFound(err) == err = "not_found"

\* The except clauses around current_message.edit that send a new message:
\* discord.NotFound and discord.HTTPException.  Any other exception leaves
\* the inner try and reaches the handler of the whole tick.
RecreatesAfter(err) == err \in {"not_found", "http"}

\* MessageAfterFailure without the reset of current_message.
MessageAfterFailure_Keeps(cm) == cm

\* The handler of the whole tick: "current_message = None".
MessageAfterFailure(cm) == None

\* last_server_state after line 179 has run.
StateAfterUpdate(info, last) == info

\* ChannelAfterSet when the assignment binds a local name (no global declaration).
ChannelAfterSet_Stale(c, old) == old

\* "UPDATE_CHANNEL_ID = ctx.channel.id" under the global declaration of line 209.
ChannelAfterSet(c, old) == c

\* MessageAfterReset that leaves the handle in place.
MessageAfterReset_Keeps(cm) == cm

\* reset of the message tracking by !refresh and !setchannel.
MessageAfterReset(cm) == None

(***************************************************************************)
(* The chat platform.                                                      *)
(***************************************************************************)
Created == {m \in MsgIds : msgChan[m] # NoChannel}
Alive == Created \ msgDeleted
NextId == Cardinality(Created) + 1

\* Locals of a task that is not inside a call.
NoTickLocal ==
    [channel |-> NoChannel, target |-> None, server_info |-> NoneInfo,
     state_changed |-> FALSE, before |-> NoneInfo, after_failure |-> FALSE]
NoMonLocal == [event |-> None, target |-> None]

\* An entry of lastOp: the operation and, for !setchannel, the invoking channel.
Op(name) == [op |-> name, ch |-> NoChannel]

\* An entry of calls: a network call and its result ("pending" until it returns).
Call(name, result) == [call |-> name, result |-> result]
Resolve(log, result) == [log EXCEPT ![Len(log)].result = result]

InFlight == {"send", "edit", "resend_not_found", "resend_http"}
TickRunning == tickPc \in InFlight \cup {"sleep"}

(***************************************************************************)
(* The race history: a reset that ran while a tick was inside a chat call  *)
(* ("hit"), that tick returned ("landed"), the following tick started      *)
(* ("next") and completed without failure ("settled").  Any other event    *)
(* ends the observation.                                                   *)
(***************************************************************************)
RaceOnReset == IF tickPc \in InFlight THEN "hit" ELSE "none"
RaceOnReturn(out) ==
    CASE race = "hit" -> "landed"
      [] race = "next" /\ out # "Failed" -> "settled"
      [] race = "landed" /\ out = "Idle" -> "landed"
      [] OTHER -> "none"
RaceOnStart == IF race = "landed" THEN "next" ELSE "none"

\* The process runs: no exit code yet.
NoExit == [path |-> "none", code |-> -1]
\* No function was called on its own.
NoCall == [fn |-> "none", arg |-> <<>>, out |-> <<>>]

Init ==
    /\ procState = "main"
    /\ exit = NoExit
    /\ call = NoCall
    /\ timerTasks = 0
    /\ UPDATE_CHANNEL_ID \in {NoChannel} \cup Channels \cup UnknownChannels
    /\ BFBC2_SERVER_NAME \in {"", "srv"}
    /\ current_message = None
    /\ last_server_state = NoneInfo
    /\ shutdown_event = None
    /\ eventsSet = {}
    /\ tickPc = "off"
    /\ tickLocal = NoTickLocal
    /\ monPc = "off"
    /\ monLocal = NoMonLocal
    /\ msgChan = [m \in MsgIds |-> NoChannel]
    /\ msgDeleted = {}
    /\ calls = <<>>
    /\ outcome = "none"
    /\ lastOp = Op("other")
    /\ tickAfter = Op("other")
    /\ race = "none"
    /\ teardown = <<>>

(***************************************************************************)
(* The status task send_server_updates.                                    *)
(***************************************************************************)
\* The task returns to its timer with current_message cm and outcome out.
TickReturns(cm, out) ==
    /\ current_message' = cm
    /\ outcome' = out
    /\ tickPc' = "sleep"
    /\ tickLocal' = NoTickLocal
    /\ race' = RaceOnReturn(out)

\* The platform stores a new message in the channel the tick resolved.
PlatformCreates == msgChan' = [msgChan EXCEPT ![NextId] = tickLocal.channel]

\* What an edit of message m can answer.
EditResults(m) ==
    IF m \in msgDeleted THEN {"not_found", "http", "other"}
    ELSE {"ok", "http", "other"}

\* The tick from the return of monitor_server_from_env (line 107), which
\* answered u, to its first await or its return: the raise into the handler of
\* the whole tick, or state_changed, the write of last_server_state and the
\* chat request.
FetchReturns(u) ==
    IF FetchRaises(u)
    THEN /\ calls' = <<Call("fetch", "raise")>>
         /\ TickReturns(MessageAfterFailure(current_message), "Failed")
         /\ UNCHANGED last_server_state
    ELSE LET info == monitor_server_from_env(u) IN
         /\ last_server_state' = StateAfterUpdate(info, last_server_state)
         /\ tickLocal' =
              [channel |-> get_channel(UPDATE_CHANNEL_ID),
               target |-> current_message,
               server_info |-> info,
               state_changed |-> state_changed(info, last_server_state),
               before |-> last_server_state,
               after_failure |-> (outcome = "Failed")]
         /\ tickPc' = IF NeedsCreate(current_message) THEN "send" ELSE "edit"
         /\ calls' = <<Call("fetch", "ok"), Call(tickPc', "pending")>>
         /\ outcome' = "running"
         /\ race' = RaceOnStart
         /\ UNCHANGED current_message

\* send_server_updates from the timer firing to its first await or its return:
\* the early returns, the blocking fetch, state_changed, the write of
\* last_server_state and the chat request.
send_server_updates ==
    /\ procState = "up"
    /\ tickPc = "sleep"
    /\ lastOp' = Op("tick")
    /\ UNCHANGED <<exit, call, timerTasks>>
    /\ tickAfter' = IF lastOp.op \in {"force_refresh", "set_channel"} THEN lastOp ELSE Op("other")
    /\ IF IdleGate
       THEN /\ calls' = <<>>
            /\ outcome' = "Idle"
            /\ race' = RaceOnReturn("Idle")
            /\ UNCHANGED <<current_message, last_server_state, tickPc, tickLocal>>
       ELSE /\ NextId <= MaxMsgs
            /\ \E u \in Upstream : FetchReturns(u)
    /\ UNCHANGED <<procState, UPDATE_CHANNEL_ID, BFBC2_SERVER_NAME, shutdown_event,
                   eventsSet, monPc, monLocal, msgChan, msgDeleted, teardown>>

\* "current_message = await channel.send(embed=embed)" at line 183 returns or raises.
send_returns ==
    /\ procState = "up"
    /\ tickPc = "send"
    /\ lastOp' = Op("tick")
    /\ UNCHANGED <<exit, call, timerTasks>>
    /\ \E ok \in BOOLEAN :
         IF ok
         THEN /\ PlatformCreates
              /\ calls' = Resolve(calls, "ok")
              /\ TickReturns(NextId, "Created")
         ELSE /\ calls' = Resolve(calls, "http")
              /\ TickReturns(MessageAfterFailure(current_message), "Failed")
              /\ UNCHANGED msgChan
    /\ UNCHANGED <<procState, UPDATE_CHANNEL_ID, BFBC2_SERVER_NAME, last_server_state,
                   shutdown_event, eventsSet, monPc, monLocal, msgDeleted, tickAfter,
                   teardown>>

\* "await current_message.edit(embed=embed)" at line 188 returns or raises; on
\* discord.NotFound and discord.HTTPException the tick calls channel.send.
edit_returns ==
    /\ procState = "up"
    /\ tickPc = "edit"
    /\ lastOp' = Op("tick")
    /\ UNCHANGED <<exit, call, timerTasks>>
    /\ \E r \in EditResults(tickLocal.target) :
         IF r = "ok"
         THEN /\ calls' = Resolve(calls, r)
              /\ TickReturns(current_message, "Edited")
         ELSE IF RecreatesAfter(r)
         THEN /\ tickPc' = IF r = "not_found" THEN "resend_not_found" ELSE "resend_http"
              /\ calls' = Append(Resolve(calls, r), Call("send", "pending"))
              /\ UNCHANGED <<current_message, outcome, tickLocal, race>>
         ELSE /\ calls' = Resolve(calls, r)
              /\ TickReturns(MessageAfterFailure(current_message), "Failed")
    /\ UNCHANGED <<procState, UPDATE_CHANNEL_ID, BFBC2_SERVER_NAME, last_server_state,
                   shutdown_event, eventsSet, monPc, monLocal, msgChan, msgDeleted,
                   tickAfter, teardown>>

\* The channel.send of lines 193 and 198 returns or raises.
resend_returns ==
    /\ procState = "up"
    /\ tickPc \in {"resend_not_found", "resend_http"}
    /\ lastOp' = Op("tick")
    /\ UNCHANGED <<exit, call, timerTasks>>
    /\ \E ok \in BOOLEAN :
         IF ok
         THEN /\ PlatformCreates
              /\ calls' = Resolve(calls, "ok")
              /\ TickReturns(NextId,
                             IF tickPc = "resend_not_found"
                             THEN "RecreatedAfterMissingMessage"
                             ELSE "RecreatedAfterEditError")
         ELSE /\ calls' = Resolve(calls, "http")
              /\ TickReturns(MessageAfterFailure(current_message), "Failed")
              /\ UNCHANGED msgChan
    /\ UNCHANGED <<procState, UPDATE_CHANNEL_ID, BFBC2_SERVER_NAME, last_server_state,
                   shutdown_event, eventsSet, monPc, monLocal, msgDeleted, tickAfter,
                   teardown>>

(***************************************************************************)
(* The admin commands and the users of the chat platform.                  *)
(***************************************************************************)
\* !setchannel in channel c, up to its await ctx.send.
set_update_channel(c) ==
    /\ procState = "up"
    /\ lastOp' = [op |-> "set_channel", ch |-> c]
    /\ UNCHANGED <<exit, call, timerTasks>>
    /\ UPDATE_CHANNEL_ID' = ChannelAfterSet(c, UPDATE_CHANNEL_ID)
    /\ current_message' = MessageAfterReset(current_message)
    /\ last_server_state' = NoneInfo
    /\ race' = RaceOnReset
    /\ UNCHANGED <<procState, BFBC2_SERVER_NAME, shutdown_event, eventsSet, tickPc,
                   tickLocal, monPc, monLocal, msgChan, msgDeleted, calls, outcome,
                   tickAfter, teardown>>

\* !refresh, up to its await ctx.send.
force_refresh ==
    /\ procState = "up"
    /\ lastOp' = Op("force_refresh")
    /\ UNCHANGED <<exit, call, timerTasks>>
    /\ current_message' = MessageAfterReset(current_message)
    /\ last_server_state' = NoneInfo
    /\ race' = RaceOnReset
    /\ UNCHANGED <<procState, UPDATE_CHANNEL_ID, BFBC2_SERVER_NAME, shutdown_event,
                   eventsSet, tickPc, tickLocal, monPc, monLocal, msgChan, msgDeleted,
                   calls, outcome, tickAfter,
                   teardown>>

\* A user of the chat platform deletes message m (the edit of a deleted
\* message raises discord.NotFound).
external_delete(m) ==
    /\ procState = "up"
    /\ m \in Alive
    /\ lastOp' = Op("other")
    /\ UNCHANGED <<exit, call, timerTasks>>
    /\ msgDeleted' = msgDeleted \cup {m}
    /\ race' = "none"
    /\ UNCHANGED <<procState, UPDATE_CHANNEL_ID, BFBC2_SERVER_NAME, current_message,
                   last_server_state, shutdown_event, eventsSet, tickPc, tickLocal,
                   monPc, monLocal, msgChan, calls, outcome, tickAfter,
                   teardown>>

(***************************************************************************)
(* Start-up, the termination signal and the shutdown waiter.               *)
(***************************************************************************)
\* "if not token:" prints two lines and the script ends: exit code 0.
ExitAfterNoToken == 0

\* "except Exception" around bot.run: cleanup_and_exit runs on a new event
\* loop and ends in os._exit(0) (line 374), which ends the process before the
\* finally clause; sys.exit(1) of line 419 runs only when the cleanup raised.
ExitAfterRunError(cleaned) == IF cleaned THEN 0 ELSE 1

\* The __main__ block from the signal registration to the token test: without
\* a token the script ends, with one bot.run starts the client.
main ==
    /\ procState = "main"
    /\ lastOp' = Op("other")
    /\ race' = "none"
    /\ \E token \in BOOLEAN :
         IF token
         THEN /\ procState' = "up"
              /\ UNCHANGED exit
         ELSE /\ procState' = "exited"
              /\ exit' = [path |-> "no_token", code |-> ExitAfterNoToken]
    /\ UNCHANGED <<call, timerTasks, UPDATE_CHANNEL_ID, BFBC2_SERVER_NAME, current_message,
                   last_server_state, shutdown_event, eventsSet, tickPc, tickLocal,
                   monPc, monLocal, msgChan, msgDeleted, calls, outcome, tickAfter,
                   teardown>>

\* bot.run raises while the client starts (login or connection failure,
\* before the ready event): the handler of line 407 runs cleanup_and_exit,
\* which either reaches its os._exit(0) or raises.
run_fails ==
    /\ procState = "up"
    /\ shutdown_event = None
    /\ lastOp' = Op("other")
    /\ race' = "none"
    /\ procState' = "exited"
    /\ \E cleaned \in BOOLEAN :
         exit' = [path |-> "run_failed", code |-> ExitAfterRunError(cleaned)]
    /\ UNCHANGED <<call, timerTasks, UPDATE_CHANNEL_ID, BFBC2_SERVER_NAME, current_message,
                   last_server_state, shutdown_event, eventsSet, tickPc, tickLocal,
                   monPc, monLocal, msgChan, msgDeleted, calls, outcome, tickAfter,
                   teardown>>

\* LoopStartRaises when start() launches a task whatever the state of the loop.
LoopStartRaises_Never(running) == FALSE

\* send_server_updates.start() at line 75: tasks.Loop.start raises
\* RuntimeError when the task of the loop is launched and not done.
LoopStartRaises(running) == running

\* on_ready: a new asyncio.Event replaces shutdown_event, then the two tasks
\* are started.  tasks.Loop.start raises RuntimeError when its task is
\* launched and not done, which ends on_ready at that line.
on_ready ==
    /\ procState = "up"
    /\ shutdown_event < MaxReady
    /\ lastOp' = Op("other")
    /\ UNCHANGED <<exit, call>>
    /\ shutdown_event' = shutdown_event + 1
    /\ IF LoopStartRaises(TickRunning)
       THEN UNCHANGED <<tickPc, timerTasks, monPc, monLocal>>
       ELSE /\ tickPc' = "sleep"
            /\ timerTasks' = timerTasks + 1
            /\ IF monPc = "off"
               THEN /\ monPc' = "wait"
                    /\ monLocal' = [monLocal EXCEPT !.event = shutdown_event']
               ELSE UNCHANGED <<monPc, monLocal>>
    /\ race' = "none"
    /\ UNCHANGED <<procState, UPDATE_CHANNEL_ID, BFBC2_SERVER_NAME, current_message,
                   last_server_state, eventsSet, tickLocal, msgChan, msgDeleted,
                   calls, outcome, tickAfter,
                   teardown>>

\* signal_handler: set() on the Event shutdown_event names, or sys.exit(0)
\* when there is none yet.
signal_handler ==
    /\ procState = "up"
    /\ lastOp' = Op("other")
    /\ UNCHANGED <<call, timerTasks>>
    /\ IF shutdown_event # None
       THEN /\ eventsSet' = eventsSet \cup {shutdown_event}
            /\ UNCHANGED <<procState, exit>>
       ELSE /\ procState' = "exited"
            /\ exit' = [path |-> "signal_before_ready", code |-> 0]
            /\ UNCHANGED eventsSet
    /\ race' = "none"
    /\ UNCHANGED <<UPDATE_CHANNEL_ID, BFBC2_SERVER_NAME, current_message,
                   last_server_state, shutdown_event, tickPc, tickLocal, monPc,
                   monLocal, msgChan, msgDeleted, calls, outcome, tickAfter,
                   teardown>>

\* cleanup_and_exit from "Stop the background task" to its await bot.close():
\* send_server_updates.cancel() throws CancelledError into a tick that is
\* inside a chat call.  A send that was already on the wire may or may not
\* have created its message.
StopTaskAndClose(done) ==
    /\ monPc' = "close"
    /\ IF TickRunning
       THEN /\ tickPc' = "cancelled"
            /\ timerTasks' = timerTasks - 1
            /\ tickLocal' = NoTickLocal
            /\ outcome' = IF tickPc \in InFlight THEN "Cancelled" ELSE outcome
            /\ teardown' = done \o <<"cancel", "close">>
            /\ IF tickPc \in {"send", "resend_not_found", "resend_http"}
               THEN \E delivered \in BOOLEAN :
                      msgChan' = IF delivered
                                 THEN [msgChan EXCEPT ![NextId] = tickLocal.channel]
                                 ELSE msgChan
               ELSE UNCHANGED msgChan
       ELSE /\ teardown' = done \o <<"close">>
            /\ UNCHANGED <<tickPc, timerTasks, tickLocal, outcome, msgChan>>

\* shutdown_monitor: "await shutdown_event.wait()" returns, cleanup_and_exit
\* runs up to its first await (the delete of the status message, or
\* bot.close() when current_message is None).
shutdown_monitor ==
    /\ procState = "up"
    /\ monPc = "wait"
    /\ monLocal.event \in eventsSet
    /\ lastOp' = Op("other")
    /\ UNCHANGED <<exit, call>>
    /\ IF current_message # None
       THEN /\ monPc' = "delete"
            /\ monLocal' = [monLocal EXCEPT !.target = current_message]
            /\ teardown' = <<"delete">>
            /\ UNCHANGED <<tickPc, timerTasks, tickLocal, outcome, msgChan>>
       ELSE /\ StopTaskAndClose(<<>>)
            /\ UNCHANGED monLocal
    /\ race' = "none"
    /\ UNCHANGED <<procState, UPDATE_CHANNEL_ID, BFBC2_SERVER_NAME, current_message,
                   last_server_state, shutdown_event, eventsSet, msgDeleted, calls,
                   tickAfter>>

\* "await current_message.delete()" returns or raises (every exception is
\* caught), then the task is stopped and bot.close() is awaited.
delete_returns ==
    /\ procState = "up"
    /\ monPc = "delete"
    /\ lastOp' = Op("other")
    /\ UNCHANGED <<exit, call>>
    /\ \E ok \in BOOLEAN :
         msgDeleted' = IF ok /\ monLocal.target \in Alive
                       THEN msgDeleted \cup {monLocal.target}
                       ELSE msgDeleted
    /\ StopTaskAndClose(teardown)
    /\ race' = "none"
    /\ UNCHANGED <<procState, UPDATE_CHANNEL_ID, BFBC2_SERVER_NAME, current_message,
                   last_server_state, shutdown_event, eventsSet, monLocal, calls,
                   tickAfter>>

\* "await bot.close()" returns, then os._exit(0).
close_returns ==
    /\ procState = "up"
    /\ monPc = "close"
    /\ lastOp' = Op("other")
    /\ procState' = "exited"
    /\ exit' = [path |-> "graceful", code |-> 0]
    /\ UNCHANGED <<call, timerTasks>>
    /\ monPc' = "done"
    /\ teardown' = Append(teardown, "exit")
    /\ race' = "none"
    /\ UNCHANGED <<UPDATE_CHANNEL_ID, BFBC2_SERVER_NAME, current_message,
                   last_server_state, shutdown_event, eventsSet, tickPc, tickLocal,
                   monLocal, msgChan, msgDeleted, calls, outcome, tickAfter>>

(***************************************************************************)
(* The specifications.                                                     *)
(***************************************************************************)
Next ==
    \/ main
    \/ run_fails
    \/ on_ready
    \/ signal_handler
    \/ send_server_updates
    \/ send_returns
    \/ edit_returns
    \/ resend_returns
    \/ \E c \in Channels : set_update_channel(c)
    \/ force_refresh
    \/ \E m \in MsgIds : external_delete(m)
    \/ shutdown_monitor
    \/ delete_returns
    \/ close_returns

Spec == Init /\ [][Next]_vars

\* The event loop runs every task that can run, and every chat call returns
\* or raises in the end (the client's HTTP requests time out).
FairSpec ==
    /\ Spec
    /\ WF_vars(shutdown_monitor)
    /\ WF_vars(delete_returns)
    /\ WF_vars(close_returns)
    /\ WF_vars(send_returns)
    /\ WF_vars(edit_returns)
    /\ WF_vars(resend_returns)

TypeOK ==
    /\ procState \in {"main", "up", "exited"}
    /\ exit.code \in {-1, 0, 1}
    /\ timerTasks \in 0..MaxReady
    /\ (procState = "exited") <=> (exit # NoExit)
    /\ UPDATE_CHANNEL_ID \in {NoChannel} \cup Channels \cup UnknownChannels
    /\ current_message \in {None} \cup MsgIds
    /\ shutdown_event \in {None} \cup EventIds
    /\ eventsSet \subseteq EventIds
    /\ tickPc \in InFlight \cup {"off", "sleep", "fetch", "cancelled"}
    /\ monPc \in {"off", "wait", "delete", "close", "done"}
    /\ msgDeleted \subseteq Created

(***************************************************************************)
(* Vocabulary of the properties.                                           *)
(***************************************************************************)
\* This step is the start of a tick / the return of a tick's chat call.
TickStartStep == tickPc = "sleep" /\ lastOp'.op = "tick"
TickResumeStep == tickPc \in InFlight /\ lastOp'.op = "tick"

\* No channel is configured, no server name is configured, or the configured
\* channel id is not one of the channels the bot can resolve.
GateClosed ==
    \/ UPDATE_CHANNEL_ID = NoChannel
    \/ BFBC2_SERVER_NAME = ""
    \/ UPDATE_CHANNEL_ID \notin Channels

\* How many calls named name the log holds.
NumCalls(log, name) == Cardinality({i \in DOMAIN log : log[i].call = name})

Resends == {"resend_not_found", "resend_http"}

(***************************************************************************)
(* C1                                                                      *)
(***************************************************************************)
C1_Step ==
    (TickStartStep /\ GateClosed) =>
        /\ calls' = <<>>
        /\ outcome' = "Idle"
        /\ tickPc' = "sleep"
        /\ UNCHANGED <<current_message, last_server_state, msgChan, msgDeleted>>

\* C1: a tick that runs while no update channel is configured, or no server
\* name is configured, or the channel id cannot be resolved, makes no
\* directory fetch and no chat request and leaves current_message and
\* last_server_state unchanged.
C1_IdleTickIsNoOp == [][C1_Step]_vars

\* An idle tick has run with a server name and a channel id that is configured
\* but not resolvable.
C1_Witness ==
    /\ lastOp.op = "tick"
    /\ outcome = "Idle"
    /\ BFBC2_SERVER_NAME # ""
    /\ UPDATE_CHANNEL_ID \in UnknownChannels

(***************************************************************************)
(* C2                                                                      *)
(***************************************************************************)
C2_Step ==
    /\ (TickStartStep /\ ~GateClosed /\ outcome' # "Failed") =>
          IF current_message = None
          THEN /\ tickPc' = "send"
               /\ calls' = <<Call("fetch", "ok"), Call("send", "pending")>>
          ELSE /\ tickPc' = "edit"
               /\ tickLocal'.target = current_message
               /\ calls' = <<Call("fetch", "ok"), Call("edit", "pending")>>
    /\ (TickResumeStep /\ tickPc = "send" /\ outcome' # "Failed") =>
          /\ outcome' = "Created"
          /\ current_message' \in Created' \ Created
          /\ NumCalls(calls', "send") = 1
          /\ NumCalls(calls', "edit") = 0
    /\ (TickResumeStep /\ tickPc = "edit" /\ calls'[2].result = "ok") =>
          /\ outcome' = "Edited"
          /\ current_message' = current_message

\* C2: every tick that passes the idle gate and does not fail issues a chat
\* request whether or not the snapshot changed: with current_message absent
\* exactly one creation, whose handle becomes current_message; with
\* current_message present an edit of that message, and a successful edit
\* leaves current_message unchanged.
C2_TickAlwaysDispatches == [][C2_Step]_vars

\* An edit is in flight although the fetched snapshot equals last_server_state
\* as it was before the tick (state_changed is false).
C2_Witness ==
    /\ tickPc = "edit"
    /\ tickLocal.before.found
    /\ tickLocal.server_info = tickLocal.before
    /\ ~tickLocal.state_changed

(***************************************************************************)
(* C3                                                                      *)
(***************************************************************************)
C3_Step ==
    /\ (TickResumeStep /\ tickPc = "edit" /\ calls'[2].result \in {"not_found", "http"}) =>
          /\ tickPc' \in Resends
          /\ Len(calls') = 3
          /\ calls'[3] = Call("send", "pending")
    /\ (TickResumeStep /\ tickPc \in Resends /\ calls'[3].result = "ok") =>
          /\ tickPc' = "sleep"
          /\ current_message' \in Created' \ Created
          /\ current_message' # tickLocal.target
    /\ (TickResumeStep /\ tickPc' = "sleep" /\ calls'[2].call = "edit"
            /\ calls'[2].result # "ok") =>
          current_message' # tickLocal.target

\* C3: when the edit of the held message fails with not-found or with another
\* HTTP error of the chat platform, the same tick requests one new message,
\* and when that creation succeeds current_message becomes the new message;
\* a tick whose edit failed never returns with current_message still naming
\* the message it tried to edit.
C3_EditFailureRecreates == [][C3_Step]_vars

\* A tick has replaced the handle after an HTTP error of its edit.
C3_Witness ==
    /\ outcome = "RecreatedAfterEditError"
    /\ calls[2] = Call("edit", "http")
    /\ current_message \in Alive
    /\ lastOp.op = "tick"

(***************************************************************************)
(* C4                                                                      *)
(***************************************************************************)
C4_Step ==
    /\ (TickStartStep /\ ~GateClosed /\ outcome' = "Failed") =>
          /\ current_message' = None
          /\ last_server_state' = last_server_state
    /\ (TickResumeStep /\ outcome' = "Failed") =>
          /\ current_message' = None
          /\ last_server_state' = tickLocal.before

\* C4: a tick that ends in its failure handler (a raising fetch, a failed
\* message creation, a failed creation after an edit error) ends with
\* current_message absent and with last_server_state equal to the value it
\* had when the tick started.
C4_FailedTickKeepsSnapshot == [][C4_Step]_vars

(***************************************************************************)
(* C5                                                                      *)
(***************************************************************************)
C5_Step ==
    /\ ((TickStartStep \/ TickResumeStep) /\ outcome' = "Failed") =>
          /\ procState' = "up"
          /\ tickPc' = "sleep"
          /\ current_message' = None
    /\ (TickStartStep /\ outcome = "Failed" /\ ~GateClosed /\ outcome' # "Failed") =>
          /\ tickPc' = "send"
          /\ tickLocal'.after_failure
    /\ (TickResumeStep /\ tickLocal.after_failure /\ calls'[2].result = "ok") =>
          /\ tickPc = "send"
          /\ outcome' = "Created"
          /\ current_message' \in Created' \ Created

\* After a failed tick the timer can fire again (as long as the model has a
\* message id left for it).
C5_TimerAlive ==
    (procState = "up" /\ outcome = "Failed" /\ monPc \in {"off", "wait"}
        /\ NextId <= MaxMsgs)
    => (tickPc = "sleep" /\ ENABLED send_server_updates)

\* C5: a failure inside a tick neither stops the timer task nor ends the
\* process: the tick returns to its timer with current_message absent, the
\* timer can fire again, and the next tick that passes the gate and whose
\* calls succeed creates a new message and makes it current_message.
C5_FailureSelfHeals == []C5_TimerAlive /\ [][C5_Step]_vars

\* The tick after a failed tick is creating a message while an older status
\* message still exists.
C5_Witness ==
    /\ tickPc = "send"
    /\ tickLocal.after_failure
    /\ Alive # {}

(***************************************************************************)
(* C6                                                                      *)
(***************************************************************************)
C6_Step ==
    /\ (TickStartStep /\ lastOp.op = "force_refresh") =>
          /\ tickPc' \in {"sleep", "send"}
          /\ NumCalls(calls', "edit") = 0
          /\ (~GateClosed /\ outcome' # "Failed") =>
                /\ tickPc' = "send"
                /\ calls'[2] = Call("send", "pending")
    /\ (TickResumeStep /\ tickAfter.op = "force_refresh") =>
          /\ tickPc = "send"
          /\ outcome' \in {"Created", "Failed"}
          /\ NumCalls(calls', "edit") = 0
          /\ (calls'[2].result = "ok") => (outcome' = "Created")

\* C6: the tick that immediately follows !refresh never edits: it requests a
\* message creation and no edit, and ends Created when the creation succeeds.
C6_ResetThenTickCreates == [][C6_Step]_vars

\* The tick right after !refresh has created a second message (the first one
\* was the handle the reset dropped).
C6_Witness ==
    /\ lastOp.op = "tick"
    /\ tickAfter.op = "force_refresh"
    /\ outcome = "Created"
    /\ Cardinality(Created) >= 2

(***************************************************************************)
(* C7                                                                      *)
(***************************************************************************)
C7_Step ==
    /\ (lastOp'.op = "set_channel") =>
          /\ lastOp'.ch \in Channels
          /\ UPDATE_CHANNEL_ID' = lastOp'.ch
          /\ current_message' = None
          /\ last_server_state' = NoneInfo
    /\ (TickStartStep /\ lastOp.op = "set_channel" /\ BFBC2_SERVER_NAME # ""
            /\ outcome' # "Failed") =>
          /\ tickPc' = "send"
          /\ tickLocal'.channel = lastOp.ch
          /\ calls'[2] = Call("send", "pending")
    /\ (TickResumeStep /\ tickAfter.op = "set_channel") =>
          /\ tickPc = "send"
          /\ NumCalls(calls', "edit") = 0
          /\ (calls'[2].result = "ok") =>
                /\ outcome' = "Created"
                /\ msgChan'[current_message'] = tickAfter.ch
    \* Whatever happens between the command and that tick: only a tick makes
    \* current_message present, only !setchannel changes the channel, and a
    \* tick that finds current_message absent creates in the configured channel.
    /\ (lastOp'.op # "tick") =>
          /\ current_message' \in {current_message, None}
          /\ (lastOp'.op # "set_channel") => (UPDATE_CHANNEL_ID' = UPDATE_CHANNEL_ID)
    /\ (TickStartStep /\ current_message = None /\ ~GateClosed /\ outcome' # "Failed") =>
          /\ tickPc' = "send"
          /\ tickLocal'.channel = UPDATE_CHANNEL_ID
    /\ (TickResumeStep /\ tickPc = "send" /\ calls'[2].result = "ok") =>
          msgChan'[current_message'] = tickLocal.channel

\* C7: !setchannel makes the invoking channel the configured channel and sets
\* last_server_state and current_message to absent; with no tick in flight,
\* the next tick that passes the gate and does not fail requests a message
\* creation in that channel and edits nothing.
C7_SetChannelThenTickCreates == [][C7_Step]_vars

\* The tick right after !setchannel has created its message in the new
\* channel while the previous status message still exists in the other one.
C7_Witness ==
    /\ lastOp.op = "tick"
    /\ tickAfter.op = "set_channel"
    /\ outcome = "Created"
    /\ current_message # None
    /\ msgChan[current_message] = UPDATE_CHANNEL_ID
    /\ \E m \in Alive : msgChan[m] # UPDATE_CHANNEL_ID

(***************************************************************************)
(* C8                                                                      *)
(***************************************************************************)
\* C8: when a reset (!refresh or !setchannel) ran while a tick was inside its
\* chat call, then once the tick that follows the in-flight one has completed
\* without failure, current_message names a message that exists in the
\* configured channel.
C8_ResetRaceSelfCorrects ==
    (race = "settled") =>
        /\ current_message \in Alive
        /\ msgChan[current_message] = UPDATE_CHANNEL_ID

(***************************************************************************)
(* C9                                                                      *)
(***************************************************************************)
\* A termination signal was raised after on_ready (signal_handler called set()).
signalled == eventsSet # {}

\* The teardown steps in the order cleanup_and_exit lists them.
OrderedTeardown ==
    {<<"delete", "cancel", "close", "exit">>, <<"cancel", "close", "exit">>}

\* C9: once a termination signal is raised after the bot became ready, the
\* shutdown waiter eventually performs the teardown, once and in order
\* (delete the held status message, stop the timer task, close the
\* connection, terminate), also when on_ready fired more than once.
C9_SignalLeadsToTeardown ==
    /\ signalled ~> (procState = "exited")
    /\ [](procState = "exited" /\ signalled => teardown \in OrderedTeardown)

(***************************************************************************)
(* C10                                                                     *)
(***************************************************************************)
\* The shutdown waiter leaves its wait and runs cleanup_and_exit in this step.
TeardownStartStep == monPc = "wait" /\ monPc' # "wait"

\* C10: the teardown never starts (and so never decides which message to
\* delete, nor stops the task) while a tick is suspended in its chat send or
\* edit call.
C10_TeardownWaitsForTick == [][TeardownStartStep => tickPc \notin InFlight]_vars

(***************************************************************************)
(* Exit codes of the process.                                              *)
(***************************************************************************)
StartupFailure == exit.path \in {"no_token", "run_failed"}

\* C11: the process exits with code 0 on a graceful shutdown and with code 1
\* on every start-up failure path (no token; bot.run raising).
C11_ExitCodes ==
    procState = "exited" =>
        exit.code = (IF StartupFailure THEN 1 ELSE 0)

(***************************************************************************)
(* bfbc2_server.py on raw records.  A Python dict is a function from its   *)
(* keys, a list a sequence, None for a dict is PyNone.  A text is a string *)
(* whose characters Spelling gives, so that lower() and the substring test *)
(* are computed.                                                           *)
(***************************************************************************)
PyNone == [none |-> TRUE]
\* Unknown when the default of a missing text is the empty text.
Unknown_Empty == ""

Unknown == "Unknown"

\* dict.get(key, default)
Get(d, key, default) == IF key \in DOMAIN d THEN d[key] ELSE default

\* The truth value of a dict or None: None and the empty dict are false.
IsNone(d) == DOMAIN d = DOMAIN PyNone
Truthy(d) == ~IsNone(d) /\ DOMAIN d # {}

\* The dict d without the keys outside keys.
Restrict(d, keys) == [k \in DOMAIN d \cap keys |-> d[k]]

\* The characters of the texts the model uses.
Spelling ==
    ("" :> <<>>) @@ ("a" :> <<"a">>) @@ ("A" :> <<"A">>) @@ ("b" :> <<"b">>)
    @@ ("B" :> <<"B">>) @@ ("ab" :> <<"a", "b">>) @@ ("Ab" :> <<"A", "b">>)
    @@ ("aB" :> <<"a", "B">>) @@ ("ba" :> <<"b", "a">>) @@ ("Ba" :> <<"B", "a">>)
    @@ ("AB" :> <<"A", "B">>)
    @@ ("Unknown" :> <<"U", "n", "k", "n", "o", "w", "n">>)

\* str.lower() on one character, and the code point order of the lower-case
\* letters the model uses.
LowerChar(c) ==
    CASE c = "A" -> "a" [] c = "B" -> "b" [] c = "U" -> "u" [] OTHER -> c
Ord(c) ==
    CASE c = "a" -> 97 [] c = "b" -> 98 [] c = "k" -> 107 [] c = "n" -> 110
      [] c = "o" -> 111 [] c = "u" -> 117 [] c = "w" -> 119

\* text.lower(), as characters.
lower(text) ==
    [i \in 1..Len(Spelling[text]) |-> LowerChar(Spelling[text][i])]

\* "needle in hay" on characters.
Contains(needle, hay) ==
    \E i \in 0..(Len(hay) - Len(needle)) :
        SubSeq(hay, i + 1, i + Len(needle)) = needle

\* Python's "a <= b" on lower-case texts (code point order, a prefix first).
RECURSIVE LexLeq(_, _)
LexLeq(a, b) ==
    IF a = <<>> THEN TRUE
    ELSE IF b = <<>> THEN FALSE
    ELSE IF Ord(Head(a)) # Ord(Head(b)) THEN Ord(Head(a)) < Ord(Head(b))
    ELSE LexLeq(Tail(a), Tail(b))

\* BFBC2_GAME_MODES.get(mode_code, mode_code)
get_game_mode_name(mode_code) ==
    IF mode_code \in DOMAIN BFBC2_GAME_MODES THEN BFBC2_GAME_MODES[mode_code]
    ELSE mode_code

\* BFBC2_REGIONS.get(region_code, region_code)
get_region_name(region_code) ==
    IF region_code \in DOMAIN BFBC2_REGIONS THEN BFBC2_REGIONS[region_code]
    ELSE region_code

\* How a call ends: it returns a value or raises an exception.
Return(v) == [raised |-> FALSE, value |-> v]
Raise(e) == [raised |-> TRUE, value |-> e]

\* What requests.get / raise_for_status / response.json() do for one request:
\* the body arrives ("ok"), or one of them raises a requests.RequestException
\* (ConnectionError, Timeout, HTTPError for a non-2xx status, JSONDecodeError
\* for a body that is not JSON).
HttpOutcomes == {"ok", "network", "timeout", "status", "bad_json"}

\* fetch_server_list: the body, or [] after "except requests.RequestException".
fetch_server_list(resp) ==
    Return(IF resp.http = "ok" THEN resp.body ELSE <<>>)

\* fetch_server_details without its except clause: a failed request raises.
fetch_server_details_Propagates(server, resp) ==
    IF ~({"LID", "GID"} \subseteq DOMAIN server) THEN Raise("KeyError")
    ELSE IF resp.http = "ok" THEN Return(resp.body) ELSE Raise("RequestException")

\* fetch_server_details: server['LID'] and server['GID'] are read before the
\* try (KeyError when one is missing); then the body, or None after
\* "except requests.RequestException".
fetch_server_details(server, resp) ==
    IF ~({"LID", "GID"} \subseteq DOMAIN server) THEN Raise("KeyError")
    ELSE Return(IF resp.http = "ok" THEN resp.body ELSE PyNone)

\* find_server_by_name: the loop over servers from index i on.
RECURSIVE FindFrom(_, _, _)
FindFrom(servers, name, i) ==
    IF i > Len(servers) THEN PyNone
    ELSE IF Contains(lower(name), lower(Get(servers[i], "N", ""))) THEN servers[i]
    ELSE FindFrom(servers, name, i + 1)

\* find_server_by_name that walks the list from its end.
find_server_by_name_Last(servers, name) ==
    FindFrom([i \in 1..Len(servers) |-> servers[Len(servers) + 1 - i]], name, 1)

find_server_by_name(servers, name) == FindFrom(servers, name, 1)

\* get_server_info on a raw record: None for a false record (the empty dict),
\* else the snapshot with the default of every missing key.  An f-string is
\* the sequence of its parts.
get_server_info_dict(server) ==
    IF ~Truthy(server) THEN PyNone
    ELSE LET level_code == Get(server, "B-U-level", Unknown)
             game_mode_code == Get(server, "B-U-gamemode", Unknown)
             region_code == Get(server, "B-U-region", Unknown)
         IN  ("name" :> Get(server, "N", Unknown))
             @@ ("players" :> <<Get(server, "AP", 0), "/", Get(server, "MP", 0)>>)
             @@ ("current_players" :> Get(server, "AP", 0))
             @@ ("max_players" :> Get(server, "MP", 0))
             @@ ("game_mode" :> get_game_mode_name(game_mode_code))
             @@ ("map" :> get_map_name(level_code))
             @@ ("map_code" :> level_code)
             @@ ("region" :> get_region_name(region_code))
             @@ ("ip" :> Get(server, "I", Unknown))
             @@ ("port" :> Get(server, "P", Unknown))
             @@ ("address" :> <<Get(server, "I", Unknown), ":", Get(server, "P", Unknown)>>)

\* list.sort(key=lambda name: name.lower()): a stable sort; name goes behind
\* every element of the sorted prefix whose key is not greater.
InsertByKey(sorted, name) ==
    LET n == Cardinality({i \in 1..Len(sorted) : LexLeq(lower(sorted[i]), lower(name))})
    IN  SubSeq(sorted, 1, n) \o <<name>> \o SubSeq(sorted, n + 1, Len(sorted))

RECURSIVE SortByLower(_)
SortByLower(names) ==
    IF names = <<>> THEN <<>>
    ELSE InsertByKey(SortByLower(SubSeq(names, 1, Len(names) - 1)), names[Len(names)])

\* get_player_list without the sort of line 225.
get_player_list_Unsorted(server_details) ==
    IF ~Truthy(server_details) THEN <<>>
    ELSE LET players == Get(server_details, "D-Players", <<>>)
         IN  [i \in 1..Len(players) |-> Get(players[i], "name", Unknown)]

\* get_player_list: [] for None, an empty dict or an empty D-Players, else
\* the names (Unknown for a player without one), sorted.
get_player_list(server_details) ==
    IF ~Truthy(server_details) THEN <<>>
    ELSE LET players == Get(server_details, "D-Players", <<>>)
         IN  SortByLower([i \in 1..Len(players) |-> Get(players[i], "name", Unknown)])

\* The keys get_server_with_players copies from the detail record.
DetailKeys ==
    ("auto_balance" :> "D-AutoBalance") @@ ("friendly_fire" :> "D-FriendlyFire")
    @@ ("kill_cam" :> "D-KillCam") @@ ("minimap" :> "D-Minimap")
    @@ ("banner_url" :> "D-BannerUrl") @@ ("server_description" :> "D-ServerDescription0")

\* get_server_with_players(server_name), given what the two requests answer.
\* A missing detail key is copied as the text "None".
get_server_with_players(server_name, listResp, detailResp) ==
    LET servers == fetch_server_list(listResp).value
        server == find_server_by_name(servers, server_name)
        server_info == get_server_info_dict(server)
        fetched == fetch_server_details(server, detailResp)
        player_list == get_player_list(fetched.value)
        combined == ("players_list" :> player_list)
                    @@ ("player_count" :> Len(player_list)) @@ server_info
    IN  IF Len(servers) = 0 THEN Return(PyNone)
        ELSE IF ~Truthy(server) THEN Return(PyNone)
        ELSE IF ~Truthy(server_info) THEN Return(PyNone)
        ELSE IF fetched.raised THEN fetched
        ELSE IF Truthy(fetched.value)
             THEN Return([k \in DOMAIN DetailKeys |->
                             Get(fetched.value, DetailKeys[k], "None")] @@ combined)
             ELSE Return(combined)

(***************************************************************************)
(* The functions of bfbc2_server.py and the pure helpers of the bot called *)
(* on their own: call holds the last call, its argument and its result.    *)
(***************************************************************************)
\* Two records of the server list as the directory reports them: one whose
\* codes are keys of the lookup tables, one whose codes are not.
RawA ==
    ("N" :> "Ab") @@ ("AP" :> 2) @@ ("MP" :> 32) @@ ("B-U-level" :> "Levels/MP_001")
    @@ ("B-U-gamemode" :> "RUSH") @@ ("B-U-region" :> "EU") @@ ("I" :> "10.0.0.1")
    @@ ("P" :> "19567") @@ ("LID" :> "1") @@ ("GID" :> "7")
RawB ==
    ("N" :> "ba") @@ ("AP" :> 0) @@ ("MP" :> 16) @@ ("B-U-level" :> "Levels/MP_099")
    @@ ("B-U-gamemode" :> "TDM") @@ ("B-U-region" :> "XX") @@ ("I" :> "10.0.0.2")
    @@ ("P" :> "19568") @@ ("LID" :> "1") @@ ("GID" :> "8")
RawKeys == DOMAIN RawA
IdKeys == {"LID", "GID"}

\* Detail records: with a roster and the ruleset flags, without a roster.
DetailA ==
    ("D-Players" :> <<[name |-> "b"], [name |-> "Ab"]>>)
    @@ ("D-AutoBalance" :> "1") @@ ("D-FriendlyFire" :> "0")
DetailB == ("D-KillCam" :> "1") @@ ("D-Minimap" :> "1")
EmptyDict == [k \in {} |-> ""]

\* The configured server name of these calls.
TargetName == "ab"

\* What the list request and the detail request can answer.
ListBodies ==
    {<<>>, <<RawA>>, <<RawB>>, <<RawB, RawA>>,
     <<Restrict(RawA, RawKeys \ {"LID"})>>, <<Restrict(RawA, RawKeys \ {"GID"})>>,
     <<Restrict(RawA, {"N", "LID", "GID"})>>}
ListResponses == [http : HttpOutcomes, body : ListBodies]
DetailBodies == {EmptyDict, DetailA, DetailB}
DetailResponses == [http : HttpOutcomes, body : DetailBodies]

\* The variables of the running bot, which a call on its own leaves alone.
botVars ==
    <<procState, exit, timerTasks, UPDATE_CHANNEL_ID, BFBC2_SERVER_NAME,
      current_message, last_server_state, shutdown_event, eventsSet, tickPc, tickLocal, monPc,
      monLocal, msgChan, msgDeleted, calls, outcome, lastOp, tickAfter, race,
      teardown>>

\* One call per run: the functions keep no state between calls.
Called(fn, arg, out) ==
    /\ call.fn = NoCall.fn
    /\ call' = [fn |-> fn, arg |-> arg, out |-> out]
    /\ UNCHANGED botVars

\* The branch send_server_updates takes on what monitor_server_from_env gave:
\* the handler of the whole tick when it raised, the offline embed for a false
\* value, else the status embed and the create/edit dispatch.
TickBranch(result) ==
    IF result.raised THEN "failure"
    ELSE IF ~Truthy(result.value) THEN "offline"
    ELSE "status"

call_fetch_server_list ==
    \E resp \in ListResponses :
        Called("fetch_server_list", resp, fetch_server_list(resp))

call_fetch_server_details ==
    \E body \in ListBodies, resp \in DetailResponses :
        /\ Len(body) > 0
        /\ Called("fetch_server_details", [server |-> body[1], resp |-> resp],
                  fetch_server_details(body[1], resp))

call_get_server_with_players ==
    \E listResp \in ListResponses, detailResp \in DetailResponses :
        Called("get_server_with_players",
               [listResp |-> listResp, detailResp |-> detailResp],
               get_server_with_players(TargetName, listResp, detailResp))

\* Lists of at most MaxServers entries for find_server_by_name: entries whose
\* names differ in case only, and one entry without the N key.
MaxServers == 2
SeqsUpTo(S, n) == UNION {[1..k -> S] : k \in 0..n}
Entries ==
    {[N |-> "Ab", LID |-> "1"], [N |-> "aB", LID |-> "2"], [N |-> "ba", LID |-> "3"],
     [N |-> "B", LID |-> "4"], [LID |-> "5"]}
Queries == {"", "a", "A", "AB", "ba", "b"}

\* The loop of find_server_by_name only reads servers: the list the caller
\* holds after the call is the one it passed.
call_find_server_by_name ==
    \E servers \in SeqsUpTo(Entries, MaxServers), name \in Queries :
        Called("find_server_by_name", [servers |-> servers, name |-> name],
               [result |-> find_server_by_name(servers, name), servers |-> servers])

\* The embed colours of bfbc2_discord_bot.py: 0x00ff00, 0xffaa00, 0xff6600, 0xff0000.
Green == 65280
Amber == 16755200
Orange == 16737792
Red == 16711680

\* color of the periodic status message (lines 115 and 122-123): the
\* conditional expression nests as A if a else (B if b else C).
send_server_updates_color(server_info) ==
    IF ~Truthy(server_info) THEN Red
    ELSE LET is_empty == server_info["current_players"] = 0
         IN  IF server_info["current_players"] > 0 THEN Green
             ELSE IF ~is_empty THEN Amber
             ELSE Orange

\* color of the !server reply (lines 274 and 277).
get_server_status_color(server_info) ==
    IF ~Truthy(server_info) THEN Red
    ELSE IF server_info["current_players"] > 0 THEN Green ELSE Amber

\* What monitor_server_from_env can hand to the two renderers: None, or the
\* snapshot of a listed record with some player count.
ActivePlayers == {0, 1, 2, 32}
Snapshots ==
    {PyNone} \cup {get_server_info_dict(("AP" :> n) @@ r) : n \in ActivePlayers, r \in {RawA, RawB}}

call_status_color ==
    \E server_info \in Snapshots :
        Called("status_color", server_info,
               [periodic |-> send_server_updates_color(server_info),
                on_demand |-> get_server_status_color(server_info)])

\* The default and the floor of the poll interval, in seconds.
DefaultInterval == 120
MinInterval == 10

\* int(text) of Python on the characters the model uses: blanks around the
\* number are dropped, one sign may precede the digits, at least one digit.
Digits == {"0", "1", "5"}
DigitValue(c) == CASE c = "0" -> 0 [] c = "1" -> 1 [] c = "5" -> 5
RECURSIVE StripLeft(_)
StripLeft(t) == IF t # <<>> /\ Head(t) = " " THEN StripLeft(Tail(t)) ELSE t
RECURSIVE StripRight(_)
StripRight(t) ==
    IF t # <<>> /\ t[Len(t)] = " " THEN StripRight(SubSeq(t, 1, Len(t) - 1)) ELSE t
Unsigned(t) == IF t # <<>> /\ Head(t) \in {"-", "+"} THEN Tail(t) ELSE t
Parses(text) ==
    LET body == Unsigned(StripRight(StripLeft(text)))
    IN  body # <<>> /\ \A i \in 1..Len(body) : body[i] \in Digits
RECURSIVE Magnitude(_)
Magnitude(body) ==
    IF body = <<>> THEN 0
    ELSE 10 * Magnitude(SubSeq(body, 1, Len(body) - 1)) + DigitValue(body[Len(body)])
int(text) ==
    LET t == StripRight(StripLeft(text))
    IN  IF Head(t) = "-" THEN 0 - Magnitude(Unsigned(t)) ELSE Magnitude(Unsigned(t))

\* UPDATE_INTERVAL_SECONDS without the "if ... < 10" correction.
UPDATE_INTERVAL_SECONDS_NoFloor(env) ==
    IF env.set /\ env.text # <<>>
    THEN IF Parses(env.text) THEN int(env.text) ELSE DefaultInterval
    ELSE DefaultInterval

\* Lines 41-54: UPDATE_INTERVAL_SECONDS from os.getenv('UPDATE_INTERVAL_SECONDS')
\* (env.set is FALSE when the variable is not in the environment).
UPDATE_INTERVAL_SECONDS(env) ==
    IF env.set /\ env.text # <<>>
    THEN IF Parses(env.text)
         THEN IF int(env.text) < MinInterval THEN MinInterval ELSE int(env.text)
         ELSE DefaultInterval
    ELSE DefaultInterval

\* The values of the environment variable: texts of at most MaxEnvLen characters.
MaxEnvLen == 3
EnvChars == Digits \cup {"-", " ", "x"}
EnvValues ==
    {[set |-> FALSE, text |-> <<>>]}
    \cup {[set |-> TRUE, text |-> t] : t \in SeqsUpTo(EnvChars, MaxEnvLen)}

call_update_interval ==
    \E env \in EnvValues :
        Called("UPDATE_INTERVAL_SECONDS", env, UPDATE_INTERVAL_SECONDS(env))

\* Detail records for get_player_list: None, a record without D-Players, and
\* rosters of at most MaxPlayers players whose names differ in case, with one
\* player that has no name key.
MaxPlayers == 3
PlayerRecords ==
    {[name |-> "b"], [name |-> "B"], [name |-> "a"], [name |-> "Ab"], [id |-> "9"]}
RosterInputs ==
    {PyNone, EmptyDict, DetailB}
    \cup {("D-Players" :> ps) : ps \in SeqsUpTo(PlayerRecords, MaxPlayers)}

call_get_player_list ==
    \E server_details \in RosterInputs :
        Called("get_player_list", server_details, get_player_list(server_details))

\* The records of the list with every subset of their keys.
RawRecords == {Restrict(r, keys) : r \in {RawA, RawB}, keys \in SUBSET RawKeys}

call_get_server_info ==
    \E server \in RawRecords :
        Called("get_server_info", server, get_server_info_dict(server))

\* The codes given to the three lookups: every key of every table, and codes
\* that are keys of none (unknown ones, keys in another case, the default).
Codes ==
    DOMAIN BFBC2_MAP_NAMES \cup DOMAIN BFBC2_GAME_MODES \cup DOMAIN BFBC2_REGIONS
    \cup {"Levels/MP_099", "levels/mp_001", "MP_001", "TDM", "rush", "XX", "eu",
          "Unknown", ""}

call_get_map_name ==
    \E code \in Codes : Called("get_map_name", code, get_map_name(code))

call_get_game_mode_name ==
    \E code \in Codes : Called("get_game_mode_name", code, get_game_mode_name(code))

call_get_region_name ==
    \E code \in Codes : Called("get_region_name", code, get_region_name(code))

\* The snapshots state_changed compares: None, and the snapshot of a record
\* with some player count and a level code that is a key of the map table,
\* that is not, or that is spelled as the display name of another level.
SeenLevels == {"Levels/MP_001", "Levels/BC1_Oasis", "Oasis", "Levels/MP_099"}
SeenSnapshots ==
    {NoneInfo} \cup {get_server_info(ap, level) : ap \in PlayerCounts, level \in SeenLevels}

call_state_changed ==
    \E info \in SeenSnapshots, last \in SeenSnapshots :
        Called("state_changed", [server_info |-> info, last_server_state |-> last],
               state_changed(info, last))

\* mid_point that rounds down.
mid_point_Floor(player_list) == Len(player_list) \div 2

\* "mid_point = (len(player_list) + 1) // 2" (lines 143 and 293).
mid_point(player_list) == (Len(player_list) + 1) \div 2

\* player_list[:mid_point] and player_list[mid_point:]
column1(player_list) == SubSeq(player_list, 1, mid_point(player_list))
column2(player_list) ==
    SubSeq(player_list, mid_point(player_list) + 1, Len(player_list))

\* The column fields the periodic message gets (lines 155-157): the first
\* always, the second under "if column2".
send_server_updates_columns(player_list) ==
    <<column1(player_list)>>
    \o (IF column2(player_list) # <<>> THEN <<column2(player_list)>> ELSE <<>>)

\* The column fields the !server reply gets (lines 289-306): none for an
\* empty roster, else as above.
get_server_status_columns(player_list) ==
    IF player_list = <<>> THEN <<>>
    ELSE <<column1(player_list)>>
         \o (IF column2(player_list) # <<>> THEN <<column2(player_list)>> ELSE <<>>)

\* Rosters of at most MaxPlayers names, as get_player_list returns them or not.
RosterNames == {"a", "Ab", "b"}

call_player_columns ==
    \E player_list \in SeqsUpTo(RosterNames, MaxPlayers) :
        Called("player_columns", player_list,
               [periodic |-> send_server_updates_columns(player_list),
                on_demand |-> get_server_status_columns(player_list)])

\* The specification of the calls: one call from the initial state, the
\* variables of the bot at rest.
FnInit ==
    /\ Init
    /\ UPDATE_CHANNEL_ID = NoChannel
    /\ BFBC2_SERVER_NAME = ""

FnNext ==
    \/ call_fetch_server_list
    \/ call_fetch_server_details
    \/ call_get_server_with_players
    \/ call_find_server_by_name
    \/ call_status_color
    \/ call_update_interval
    \/ call_get_player_list
    \/ call_get_server_info
    \/ call_get_map_name
    \/ call_get_game_mode_name
    \/ call_get_region_name
    \/ call_state_changed
    \/ call_player_columns

FnSpec == FnInit /\ [][FnNext]_vars

(***************************************************************************)
(* The directory client.                                                   *)
(***************************************************************************)
\* The record of the list that find_server_by_name locates for TargetName.
Located(body) ==
    LET hits == {i \in 1..Len(body) :
                    Contains(lower(TargetName), lower(Get(body[i], "N", "")))}
    IN  IF hits = {} THEN PyNone
        ELSE body[CHOOSE i \in hits : \A j \in hits : i <= j]

\* The list request succeeded and lists the target with its identity keys,
\* and the detail request failed.
DetailFetchFailed ==
    /\ call.fn = "get_server_with_players"
    /\ call.arg.listResp.http = "ok"
    /\ Truthy(Located(call.arg.listResp.body))
    /\ IdKeys \subseteq DOMAIN Located(call.arg.listResp.body)
    /\ call.arg.detailResp.http # "ok"

\* C12: when the list request succeeds and lists the target and the detail
\* request fails, get_server_with_players returns a snapshot whose players_list
\* is empty, whose player_count is 0 and which has none of the ruleset-flag
\* keys, and the tick takes the status branch (not its failure handler, not
\* the offline embed).
C12_DetailFailureKeepsSnapshot ==
    DetailFetchFailed =>
        /\ ~call.out.raised
        /\ Truthy(call.out.value)
        /\ call.out.value["players_list"] = <<>>
        /\ call.out.value["player_count"] = 0
        /\ DOMAIN call.out.value \cap DOMAIN DetailKeys = {}
        /\ call.out.value["name"] = Located(call.arg.listResp.body)["N"]
        /\ TickBranch(call.out) = "status"

C12_Witness ==
    /\ DetailFetchFailed
    /\ call.arg.detailResp.http = "timeout"
    /\ Len(call.arg.listResp.body) = 2
    /\ TickBranch(call.out) = "status"

\* C13: fetch_server_list and fetch_server_details never raise: for every
\* failure of the request and every record passed in (also one without LID or
\* GID) the first returns an empty list and the second returns None.
C13_ClientNeverRaises ==
    /\ call.fn = "fetch_server_list" =>
          /\ ~call.out.raised
          /\ call.arg.http # "ok" => call.out.value = <<>>
    /\ call.fn = "fetch_server_details" =>
          /\ ~call.out.raised
          /\ (call.arg.resp.http # "ok" \/ ~(IdKeys \subseteq DOMAIN call.arg.server))
                => IsNone(call.out.value)

(***************************************************************************)
(* find_server_by_name.                                                    *)
(***************************************************************************)
\* Two characters that are the same letter in upper or lower case.
SameLetter(c, d) ==
    c = d \/ {c, d} \in {{"a", "A"}, {"b", "B"}, {"u", "U"}}

\* The display name of entry contains the query, case ignored.
NameContains(entry, query) ==
    LET hay == Spelling[IF "N" \in DOMAIN entry THEN entry["N"] ELSE ""]
        needle == Spelling[query]
    IN  \E off \in 0..(Len(hay) - Len(needle)) :
            \A k \in 1..Len(needle) : SameLetter(needle[k], hay[off + k])

\* C14: find_server_by_name returns the first entry, in input order, whose
\* name contains the query case-insensitively, and None when no name contains
\* it; the input list is the same after the call.
C14_FirstCaseInsensitiveMatch ==
    call.fn = "find_server_by_name" =>
        LET servers == call.arg.servers
            hits == {i \in 1..Len(servers) : NameContains(servers[i], call.arg.name)}
        IN  /\ hits = {} => IsNone(call.out.result)
            /\ hits # {} =>
                  \E i \in hits : /\ \A j \in hits : i <= j
                                  /\ call.out.result = servers[i]
            /\ call.out.servers = servers

\* Two entries match in another case than the query's, behind one that does not.
C14_Witness ==
    /\ call.fn = "find_server_by_name"
    /\ call.arg.name = "AB"
    /\ call.arg.servers = <<[N |-> "ba", LID |-> "3"], [N |-> "aB", LID |-> "2"]>>
    /\ call.out.result = [N |-> "aB", LID |-> "2"]

(***************************************************************************)
(* The colour of the status payload.                                       *)
(***************************************************************************)
\* C15: the colour is green for a found server with players, amber for a
\* found server with 0 players and red for None, and the periodic message and
\* the !server reply have the same colour for the same snapshot.
C15_ThreeColours ==
    call.fn = "status_color" =>
        LET expected ==
                IF ~Truthy(call.arg) THEN Red
                ELSE IF call.arg["current_players"] > 0 THEN Green
                ELSE Amber
        IN  /\ call.out.periodic = expected
            /\ call.out.on_demand = expected
            /\ call.out.periodic = call.out.on_demand

(***************************************************************************)
(* The poll interval.                                                      *)
(***************************************************************************)
\* C16: the interval is 120 when the variable is unset, empty or not an
\* integer, else the larger of its value and 10; it is always an integer of
\* at least 10 (also for 0 and for negative values).
C16_IntervalDefaultAndFloor ==
    call.fn = "UPDATE_INTERVAL_SECONDS" =>
        LET env == call.arg
            n == int(env.text)
        IN  /\ call.out \in Int /\ call.out >= 10
            /\ (~env.set \/ env.text = <<>> \/ ~Parses(env.text)) => call.out = 120
            /\ (env.set /\ env.text # <<>> /\ Parses(env.text)) =>
                  call.out = (IF n > 10 THEN n ELSE 10)
            /\ env.text = <<"-", "5">> => call.out = 10
            /\ env.text = <<"0">> => call.out = 10
            /\ env.text = <<" ", "1", "5">> => call.out = 15
            /\ env.text = <<"1", "x">> => call.out = 120
            /\ env.text = <<"-">> => call.out = 120
            /\ env.text = <<"1", " ", "5">> => call.out = 120

C16_Witness ==
    /\ call.fn = "UPDATE_INTERVAL_SECONDS"
    /\ call.arg.text = <<"-", "1", "5">>
    /\ call.out = 10

(***************************************************************************)
(* The read-only commands !server and !info.  Their replies are messages   *)
(* of the invoking channel, which msgChan (the status messages) does not   *)
(* hold.  Neither command writes a variable between its awaits, so each is *)
(* one step.                                                               *)
(***************************************************************************)
\* StateAfterQuery when the snapshot of the command is stored as the tick stores it.
StateAfterQuery_Stores(info, last) == info

\* "server_info = monitor_server_from_env()" in get_server_status binds a
\* local name: last_server_state keeps its value.
StateAfterQuery(info, last) == last

\* "await ctx.send(...)" in the two commands: the message sent is not kept.
MessageAfterQuery(sent, cm) == cm

\* The commands have no global declaration: the channel id is only read by
\* bot_info.
ChannelAfterQuery(old) == old

\* The frame of the two commands.
QueryStep ==
    /\ procState = "up"
    /\ lastOp' = Op("query")
    /\ race' = "none"
    /\ UNCHANGED <<procState, exit, call, timerTasks, BFBC2_SERVER_NAME, shutdown_event,
                   eventsSet, tickPc, tickLocal, monPc, monLocal, msgChan,
                   msgDeleted, calls, outcome, tickAfter, teardown>>

\* What the fetch of !server can give: a snapshot, None, or (for no configured
\* name, or when the fetch raises into the except clause of line 309) nothing.
QueryResults ==
    {IF FetchRaises(u) THEN NoneInfo ELSE monitor_server_from_env(u) : u \in Upstream}

\* !server: the "not configured" reply, or the fetch and the reply; a send
\* may raise.
get_server_status ==
    /\ QueryStep
    /\ \E info \in QueryResults, sent \in BOOLEAN :
         /\ last_server_state' =
                StateAfterQuery(IF BFBC2_SERVER_NAME = "" THEN NoneInfo ELSE info,
                                last_server_state)
         /\ current_message' = MessageAfterQuery(sent, current_message)
         /\ UPDATE_CHANNEL_ID' = ChannelAfterQuery(UPDATE_CHANNEL_ID)

\* !info: one embed, whose send may raise.
bot_info ==
    /\ QueryStep
    /\ \E sent \in BOOLEAN :
         /\ last_server_state' = last_server_state
         /\ current_message' = MessageAfterQuery(sent, current_message)
         /\ UPDATE_CHANNEL_ID' = ChannelAfterQuery(UPDATE_CHANNEL_ID)

CmdNext ==
    \/ Next
    \/ get_server_status
    \/ bot_info

CmdSpec == Init /\ [][CmdNext]_vars

\* C17: !server and !info leave current_message, last_server_state and the
\* configured channel as they were, whatever their fetch and their sends do.
C17_Step ==
    lastOp'.op = "query" =>
        UNCHANGED <<current_message, last_server_state, UPDATE_CHANNEL_ID>>

C17_QueriesKeepDisplayState == [][C17_Step]_vars

\* A command ran while a status message was tracked with one snapshot and
\* the upstream could have answered with another.
C17_Witness ==
    /\ lastOp.op = "query"
    /\ current_message # None
    /\ last_server_state.found
    /\ UPDATE_CHANNEL_ID \in Channels

(***************************************************************************)
(* The roster.                                                             *)
(***************************************************************************)
\* The place of a letter in the alphabet, whatever its case.
LetterRank(c) ==
    CASE c \in {"a", "A"} -> 1 [] c \in {"b", "B"} -> 2 [] c = "k" -> 11
      [] c = "n" -> 14 [] c = "o" -> 15 [] c \in {"u", "U"} -> 21 [] c = "w" -> 23

\* Text a is not behind text b in the dictionary order that ignores case.
RECURSIVE FoldedLeq(_, _)
FoldedLeq(a, b) ==
    IF a = <<>> THEN TRUE
    ELSE IF b = <<>> THEN FALSE
    ELSE IF LetterRank(Head(a)) < LetterRank(Head(b)) THEN TRUE
    ELSE IF LetterRank(Head(a)) > LetterRank(Head(b)) THEN FALSE
    ELSE FoldedLeq(Tail(a), Tail(b))

Count(seq, x) == Cardinality({i \in DOMAIN seq : seq[i] = x})

\* The names of the players of a detail record, Unknown for a missing one.
InputNames(server_details) ==
    IF IsNone(server_details) \/ "D-Players" \notin DOMAIN server_details THEN <<>>
    ELSE [i \in DOMAIN server_details["D-Players"] |->
             IF "name" \in DOMAIN server_details["D-Players"][i]
             THEN server_details["D-Players"][i]["name"] ELSE Unknown]

\* C18: get_player_list returns the names in ascending order with case
\* ignored, whatever the input order, with every name as often as in the
\* input (Unknown for a player without a name); a roster it produced comes
\* back unchanged when it is given as input again.
C18_RosterSortedSameNames ==
    call.fn = "get_player_list" =>
        LET names == InputNames(call.arg)
            roster == call.out
        IN  /\ \A i, j \in DOMAIN roster :
                  i < j => FoldedLeq(Spelling[roster[i]], Spelling[roster[j]])
            /\ Len(roster) = Len(names)
            /\ \A x \in DOMAIN Spelling : Count(roster, x) = Count(names, x)
            /\ get_player_list(("D-Players" :> [i \in DOMAIN roster |-> [name |-> roster[i]]]))
                  = roster

\* A roster given out of order, with names differing in case and a player
\* without a name.
C18_Witness ==
    /\ call.fn = "get_player_list"
    /\ call.arg = ("D-Players" :> <<[id |-> "9"], [name |-> "B"], [name |-> "Ab"]>>)
    /\ call.out = <<"Ab", "B", "Unknown">>

(***************************************************************************)
(* get_server_info.                                                        *)
(***************************************************************************)
\* The keys of a raw record that get_server_info reads, by kind, with the
\* snapshot field each one fills.
TextFields ==
    ("N" :> "name") @@ ("B-U-level" :> "map_code") @@ ("B-U-gamemode" :> "game_mode")
    @@ ("B-U-region" :> "region") @@ ("I" :> "ip") @@ ("P" :> "port")
CountFields == ("AP" :> "current_players") @@ ("MP" :> "max_players")
SnapshotKeys ==
    {"name", "players", "current_players", "max_players", "game_mode", "map",
     "map_code", "region", "ip", "port", "address"}

\* C19: for every raw record that misses any subset of the optional keys
\* (name, level, game mode, region, ip, port, current and max players),
\* get_server_info returns a snapshot with all its fields, in which every
\* missing text is 'Unknown' and every missing count is 0.  (The record keeps
\* at least one key: get_server_info answers None to the empty dict.)
C19_MissingFieldsGetDefaults ==
    (call.fn = "get_server_info" /\ DOMAIN call.arg # {}) =>
        /\ ~IsNone(call.out)
        /\ DOMAIN call.out = SnapshotKeys
        /\ \A k \in DOMAIN TextFields \ DOMAIN call.arg :
              call.out[TextFields[k]] = "Unknown"
        /\ \A k \in DOMAIN CountFields \ DOMAIN call.arg :
              call.out[CountFields[k]] = 0
        /\ "B-U-level" \notin DOMAIN call.arg => call.out["map"] = "Unknown"
        /\ \A k \in DOMAIN CountFields \cap DOMAIN call.arg :
              call.out[CountFields[k]] = call.arg[k]
        /\ \A k \in {"N", "I", "P", "B-U-level"} \cap DOMAIN call.arg :
              call.out[TextFields[k]] = call.arg[k]
        /\ {"AP", "B-U-level"} \subseteq DOMAIN call.arg =>
              LET info == get_server_info(call.arg["AP"], call.arg["B-U-level"])
              IN  /\ call.out["current_players"] = info.current_players
                  /\ call.out["map"] = info.map
                  /\ call.out["map_code"] = info.map_code

\* A record that has only its identity keys.
C19_Witness ==
    /\ call.fn = "get_server_info"
    /\ DOMAIN call.arg = IdKeys
    /\ call.out["name"] = "Unknown"
    /\ call.out["max_players"] = 0
    /\ call.out["address"] = <<"Unknown", ":", "Unknown">>

(***************************************************************************)
(* The lookup tables.                                                      *)
(***************************************************************************)
\* The table a lookup reads.
TableOf(fn) ==
    CASE fn = "get_map_name" -> BFBC2_MAP_NAMES
      [] fn = "get_game_mode_name" -> BFBC2_GAME_MODES
      [] fn = "get_region_name" -> BFBC2_REGIONS

\* C20: a map, game mode or region code that is not a key of its table
\* resolves to the code itself; a code that is a key resolves to the table's
\* value.
C20_LookupIdentityFallback ==
    call.fn \in {"get_map_name", "get_game_mode_name", "get_region_name"} =>
        /\ call.arg \notin DOMAIN TableOf(call.fn) => call.out = call.arg
        /\ call.arg \in DOMAIN TableOf(call.fn) => call.out = TableOf(call.fn)[call.arg]
        /\ (call.fn = "get_map_name" /\ call.arg = "Levels/MP_012") => call.out = "Port Valdez"
        /\ (call.fn = "get_map_name" /\ call.arg = "levels/mp_001") => call.out = "levels/mp_001"
        /\ (call.fn = "get_map_name" /\ call.arg = "RUSH") => call.out = "RUSH"
        /\ (call.fn = "get_game_mode_name" /\ call.arg = "SQDM") => call.out = "Squad Deathmatch"
        /\ (call.fn = "get_game_mode_name" /\ call.arg = "EU") => call.out = "EU"
        /\ (call.fn = "get_region_name" /\ call.arg = "OC") => call.out = "Oceania"
        /\ (call.fn = "get_region_name" /\ call.arg = "eu") => call.out = "eu"

\* A level code that is no key of the map table came back unchanged.
C20_Witness ==
    /\ call.fn = "get_map_name"
    /\ call.arg = "Levels/MP_099"
    /\ call.out = "Levels/MP_099"

(***************************************************************************)
(* The changed flag of a tick.                                             *)
(***************************************************************************)
\* C21: the changed flag is true exactly when the presence flipped, or both
\* snapshots are present and the player counts differ, or both are present
\* and the map codes differ; so it is false for two absent snapshots and true
\* for two map codes with the same display name.
C21_ChangedFlag ==
    call.fn = "state_changed" =>
        LET info == call.arg.server_info
            last == call.arg.last_server_state
        IN  call.out <=>
                \/ info.found # last.found
                \/ /\ info.found
                   /\ last.found
                   /\ \/ info.current_players # last.current_players
                      \/ info.map_code # last.map_code

(***************************************************************************)
(* The two columns of the player list.                                     *)
(***************************************************************************)
\* n / 2 rounded up and rounded down.
HalfUp(n) == CHOOSE k \in 0..n : 2 * k >= n /\ 2 * k <= n + 1
HalfDown(n) == CHOOSE k \in 0..n : 2 * k <= n /\ 2 * k >= n - 1

\* The column fields split the roster as the claim says.
SplitsRoster(fields, roster) ==
    LET n == Len(roster)
    IN  /\ Len(fields) <= 2
        /\ Len(fields) >= 1 =>
              /\ Len(fields[1]) = HalfUp(n)
              /\ fields[1] = SubSeq(roster, 1, HalfUp(n))
        /\ Len(fields) = 2 =>
              /\ fields[2] # <<>>
              /\ Len(fields[2]) = HalfDown(n)
              /\ fields[1] \o fields[2] = roster
        /\ Len(fields) = 1 => fields[1] = roster /\ HalfDown(n) = 0
        /\ Len(fields) = 0 => roster = <<>>

\* C26: the two columns partition the roster: the first holds the first
\* ceil(n/2) names, the second the other floor(n/2), their concatenation is
\* the roster in order, and the second column is emitted only when it has a
\* name; in the periodic message and in the !server reply.
C26_ColumnsPartitionRoster ==
    call.fn = "player_columns" =>
        /\ SplitsRoster(call.out.periodic, call.arg)
        /\ SplitsRoster(call.out.on_demand, call.arg)

\* A roster of three names: two in the first column, one in the second.
C26_Witness ==
    /\ call.fn = "player_columns"
    /\ call.arg = <<"a", "Ab", "b">>
    /\ call.out.periodic = <<(<<"a", "Ab">>), (<<"b">>)>>
    /\ call.out.on_demand = call.out.periodic

(***************************************************************************)
(* A tick whose fetch finds no server.                                     *)
(***************************************************************************)
Succeeded ==
    {"Created", "Edited", "RecreatedAfterMissingMessage", "RecreatedAfterEditError"}

C24_Step ==
    /\ (TickStartStep /\ ~GateClosed /\ outcome' # "Failed") =>
          /\ tickPc' = (IF current_message = None THEN "send" ELSE "edit")
          /\ last_server_state' = tickLocal'.server_info
    /\ (TickResumeStep /\ outcome' \in Succeeded) =>
          /\ IF outcome' = "Edited"
             THEN current_message' = current_message
             ELSE current_message' \in Created' \ Created
          /\ last_server_state' = tickLocal.server_info

\* C24: a tick whose list fetch fails, is empty or lacks the target is not a
\* failure: it dispatches the offline payload by the create-or-edit rule,
\* keeps or sets current_message and, when its chat call succeeds, ends with
\* last_server_state absent; a tick that found the target and succeeds ends
\* with last_server_state equal to the snapshot it rendered.
C24_OfflineTickIsNormal == [][C24_Step]_vars

(***************************************************************************)
(* The status messages on the platform.                                    *)
(***************************************************************************)
\* C25: as long as no teardown has begun, at most one status message exists
\* undeleted, and when one exists and no tick is in flight current_message
\* names it (after any ticks, edit failures, !refresh and !setchannel).
C25_SingleStatusMessage ==
    (eventsSet = {} /\ procState = "up") =>
        /\ Cardinality(Alive) <= 1
        /\ (Alive # {} /\ tickPc \notin InFlight) => current_message \in Alive

tick_begins_fetch ==
    /\ procState = "up"
    /\ tickPc = "sleep"
    /\ ~IdleGate
    /\ NextId <= MaxMsgs
    /\ tickPc' = "fetch"
    /\ lastOp' = Op("tick")
    /\ tickAfter' = IF lastOp.op \in {"force_refresh", "set_channel"} THEN lastOp ELSE Op("other")
    /\ UNCHANGED <<procState, exit, call, timerTasks, UPDATE_CHANNEL_ID,
                   BFBC2_SERVER_NAME, current_message, last_server_state,
                   shutdown_event, eventsSet, tickLocal, monPc, monLocal, msgChan,
                   msgDeleted, calls, outcome, race, teardown>>

\* monitor_server_from_env() returns or raises, and the tick runs on to its
\* first await or its return.
fetch_returns ==
    /\ procState = "up"
    /\ tickPc = "fetch"
    /\ lastOp' = Op("tick")
    /\ \E u \in Upstream : FetchReturns(u)
    /\ UNCHANGED <<procState, exit, call, timerTasks, UPDATE_CHANNEL_ID,
                   BFBC2_SERVER_NAME, shutdown_event, eventsSet, monPc, monLocal,
                   msgChan, msgDeleted, tickAfter, teardown>>

\* A tick that returns at one of its early returns makes no fetch.
tick_idle == IdleGate /\ send_server_updates

\* The thread of the event loop is not inside a blocking call.
LoopFree == tickPc # "fetch"

FetchNext ==
    \/ main
    \/ run_fails
    \/ LoopFree /\ on_ready
    \/ signal_handler
    \/ LoopFree /\ tick_idle
    \/ tick_begins_fetch
    \/ fetch_returns
    \/ LoopFree /\ send_returns
    \/ LoopFree /\ edit_returns
    \/ LoopFree /\ resend_returns
    \/ LoopFree /\ \E c \in Channels : set_update_channel(c)
    \/ LoopFree /\ force_refresh
    \/ \E m \in MsgIds : external_delete(m)
    \/ LoopFree /\ shutdown_monitor
    \/ LoopFree /\ delete_returns
    \/ LoopFree /\ close_returns

FetchSpec == Init /\ [][FetchNext]_vars

\* C23: while the directory fetch of a tick is in progress, a termination
\* signal that has been raised can be observed by the shutdown waiter: the
\* waiter's next step (teardown) can be taken without the fetch returning.
FetchInProgress == tickPc = "fetch"
SignalRaised == monPc = "wait" /\ monLocal.event \in eventsSet
C23_FetchOffShutdownContext ==
    (FetchInProgress /\ SignalRaised) => ENABLED (LoopFree /\ shutdown_monitor)

=============================================================================
